---------------------------- MODULE Spec2Model ----------------------------
(***************************************************************************)
(* redilex: a model / lexical-index layer over Redis hashes.               *)
(*                                                                         *)
(* The module models the library under src/lib (index.js, queries.js,      *)
(* helpers.js), its joi schemas (src/unnamed/part_000) and its default     *)
(* MODEL (src/unnamed/part_001:209-222), together with the Redis commands  *)
(* it issues (HMSET, HGETALL, DEL, ZADD, ZREM, ZRANGEBYLEX, MULTI/EXEC).   *)
(*                                                                         *)
(* JavaScript strings are sequences of one-character strings, so that      *)
(* formatIndex, parseIndex, formatKey and the ZRANGEBYLEX byte order are   *)
(* computed, not assumed.                                                  *)
(***************************************************************************)
EXTENDS Integers, Sequences, FiniteSets, TLC

VARIABLES
    db,       \* the Redis keyspace: key -> [type, h, z]
    opts,     \* the options object of createModel: which hooks are configured
    op,       \* the public call in flight ("idle" when none)
    pc,       \* the waterfall step the call in flight is at
    input,    \* the call's argument after wrapArray (search: the request)
    carry,    \* the value the waterfall hands to the next step
    result,   \* what the call's callback received / how the call ended
    trips,    \* store round trips the call in flight has issued
    hooked,   \* whether a hook has been invoked during the call in flight
    snap,     \* the keyspace when the call in flight began
    other,    \* a second call in flight on the same client: [op, pc, input, carry, result]
    probe     \* the helper of lib/helpers.js applied last: [fn, args, out]

vars == <<db, opts, op, pc, input, carry, result, trips, hooked, snap, other, probe>>

---------------------------------------------------------------------------
(* Bounds of the model. *)

\* ids shortid can generate / callers can name: IdPool[1..NumIds]
NumIds == 2
\* records or ids per call
MaxBatch == 2
\* Date.now() returns a value in 1..MaxTime
MaxTime == 1
\* characters of a name, id or value a helper is applied to on its own
MaxChars == 3

---------------------------------------------------------------------------
(* Characters and strings. *)

\* The byte of each character used by the model ('\xff' is the sentinel of
\* the search range, src/lib/index.js:54).
Ord(c) ==
    CASE c = " " -> 32  [] c = "0" -> 48  [] c = "1" -> 49  [] c = "2" -> 50
      [] c = "3" -> 51  [] c = "5" -> 53  [] c = ":" -> 58  [] c = "B" -> 66
      [] c = "H" -> 72  [] c = "O" -> 79  [] c = "a" -> 97  [] c = "b" -> 98
      [] c = "c" -> 99  [] c = "d" -> 100 [] c = "e" -> 101 [] c = "f" -> 102
      [] c = "h" -> 104 [] c = "i" -> 105 [] c = "l" -> 108 [] c = "m" -> 109
      [] c = "n" -> 110 [] c = "o" -> 111 [] c = "p" -> 112 [] c = "r" -> 114
      [] c = "s" -> 115 [] c = "t" -> 116 [] c = "x" -> 120 [] c = "[" -> 91
      [] c = "xFF" -> 255
      [] OTHER -> 63

\* String.prototype.toLowerCase on one character
LowerChar(c) ==
    CASE c = "O" -> "o" [] c = "B" -> "b" [] c = "H" -> "h" [] OTHER -> c

\* the characters the class [\s+:] of formatIndex matches
Stripped(c) == c \in {" ", "+", ":"}

\* s1 < s2 in the byte order Redis sorts members by (memcmp, shorter first)
RECURSIVE LexLess(_, _)
LexLess(s1, s2) ==
    IF s2 = <<>> THEN FALSE
    ELSE IF s1 = <<>> THEN TRUE
    ELSE IF Ord(Head(s1)) # Ord(Head(s2)) THEN Ord(Head(s1)) < Ord(Head(s2))
    ELSE LexLess(Tail(s1), Tail(s2))

LexLeq(s1, s2) == s1 = s2 \/ LexLess(s1, s2)

\* String.prototype.indexOf for a one-character needle; 0 when absent
\* (positions are 1-based here, so JavaScript's -1 is 0)
IndexOf(s, c) ==
    IF \E i \in 1..Len(s) : s[i] = c
    THEN CHOOSE i \in 1..Len(s) : s[i] = c /\ \A j \in 1..(i - 1) : s[j] # c
    ELSE 0

IsPrefix(p, s) == Len(p) <= Len(s) /\ SubSeq(s, 1, Len(p)) = p

\* the members of a finite set of strings in ascending byte order
RECURSIVE SortLex(_)
SortLex(S) ==
    IF S = {} THEN <<>>
    ELSE LET m == CHOOSE x \in S : \A y \in S : LexLeq(x, y)
         IN  <<m>> \o SortLex(S \ {m})

Range(f) == {f[i] : i \in DOMAIN f}

---------------------------------------------------------------------------
(* JavaScript values: a type tag and the value's String() conversion. *)

Str(s) == [ty |-> "string", s |-> s]
Num(s) == [ty |-> "number", s |-> s]
False == [ty |-> "boolean", s |-> <<"f", "a", "l", "s", "e">>]
True == [ty |-> "boolean", s |-> <<"t", "r", "u", "e">>]
\* the value of a property an object does not have
Absent == [ty |-> "undefined", s |-> <<>>]

\* ToBoolean: '', 0, false and undefined are falsy
Truthy(v) ==
    CASE v.ty = "string" -> v.s # <<>>
      [] v.ty = "number" -> v.s # <<"0">>
      [] v.ty = "boolean" -> v.s = <<"t", "r", "u", "e">>
      [] OTHER -> FALSE

\* An object (a hash, a record a caller passes) is a function from the
\* property names to values, Absent where it has no such property.
AllFields == {"id", "created", "name", "location", "bogus"}
NoFields == [f \in AllFields |-> Absent]
\* the object with the properties of a record
Obj(r) == [f \in AllFields |-> IF f \in DOMAIN r THEN r[f] ELSE Absent]
Has(h, prop) == h[prop].ty # "undefined"
Keys(h) == {f \in AllFields : Has(h, f)}
\* hash[prop] as a condition
TruthyAt(h, prop) == Truthy(h[prop])

\* what Redis keeps of a field value: its string
Stored(v) == Str(v.s)

Oscar == Str(<<"O", "s", "c", "a", "r">>)
oscar == Str(<<"o", "s", "c", "a", "r">>)
Bob == Str(<<"B", "o", "b">>)
Home == Str(<<"H", "o", "m", "e">>)
Empty == Str(<<>>)
Zero == Num(<<"0">>)

IdPool == <<"a", "b", "c", "d">>
Ids == {<<IdPool[i]>> : i \in 1..NumIds}
IdVal(i) == Str(i)

\* Date.now(): a number, written in decimal
Digit(t) == CASE t = 0 -> "0" [] t = 1 -> "1" [] t = 2 -> "2" [] t = 3 -> "3" [] OTHER -> "5"
Times == {Num(<<Digit(t)>>) : t \in 1..MaxTime}
\* a timestamp no Date.now() of the model returns (a caller's own value)
Five == Num(<<"5">>)

---------------------------------------------------------------------------
(* SYMBOLS, MODEL and the model the checks run on. *)

\* SYMBOLS.sep and SYMBOLS.index
Sep == ":"
IndexSub == <<"i">>

\* the name option of createModel: the namespace of every key
ModelName == <<"p">>

\* property names as they are written into keys
FieldChars(f) ==
    CASE f = "id" -> <<"i", "d">>
      [] f = "created" -> <<"c", "r", "e", "a", "t", "e", "d">>
      [] f = "name" -> <<"n", "a", "m", "e">>
      [] f = "location" -> <<"l", "o", "c">>
      [] OTHER -> <<"x">>

\* Object.keys order of Object.assign({}, MODEL, model)
FieldOrder == <<"id", "created", "name", "location", "bogus">>

\* MODEL: the fields every model has
MODEL ==
    [id |-> [seed |-> "shortid", lexical |-> FALSE,
             validate |-> "string.required", updateValidate |-> "string.required"],
     created |-> [seed |-> "now", lexical |-> TRUE,
                  validate |-> "integer.required", updateValidate |-> "integer"]]

\* the caller's model: README "Basic Use", a lexical name and a seeded location
UserModel ==
    [name |-> [lexical |-> TRUE],
     location |-> [seed |-> "Home"]]

setDefault(obj, prop, def) == IF prop \in DOMAIN obj THEN obj[prop] ELSE def

\* formatSeed: a seed that is not a function becomes a constant generator;
\* "none" stands for no seed
formatSeed(desc) == setDefault(desc, "seed", "none")

formatModel(model) ==
    LET output == model @@ MODEL
    IN  [key \in DOMAIN output |->
            [seed |-> formatSeed(output[key]),
             lexical |-> setDefault(output[key], "lexical", FALSE),
             validate |-> setDefault(output[key], "validate", "any.required"),
             updateValidate |-> setDefault(output[key], "updateValidate", "any")]]

Model == formatModel(UserModel)

---------------------------------------------------------------------------
(* src/lib/helpers.js *)

Arr(seq) == [arr |-> TRUE, v |-> seq]
One(x) == [arr |-> FALSE, v |-> x]

wrapArray(data) == IF data.arr THEN data.v ELSE <<data.v>>

\* String(value).replace(/[\s+:]/g, '').toLowerCase()
RECURSIVE Normalize(_)
Normalize(s) ==
    IF s = <<>> THEN <<>>
    ELSE IF Stripped(Head(s)) THEN Normalize(Tail(s))
    ELSE <<LowerChar(Head(s))>> \o Normalize(Tail(s))

\* the token without the id: the normalized value alone
formatIndexValueOnly(value, id) == Normalize(value.s)

formatIndex(value, id) == Normalize(value.s) \o <<Sep>> \o id.s

formatKey(name, id, sub) ==
    IF sub # <<>> THEN name \o <<Sep>> \o sub \o <<Sep>> \o id
    ELSE name \o <<Sep>> \o id

\* the value a seed generator returns; gen holds what shortid.generate and
\* Date.now return at this call
SeedValue(seed, gen) ==
    CASE seed = "shortid" -> Str(gen.id)
      [] seed = "now" -> gen.now
      [] OTHER -> Home

seedHash(model, data, gen) ==
    LET kept == {key \in DOMAIN model : TruthyAt(data, key)}
        seeded == {key \in DOMAIN model \ kept : model[key].seed # "none"}
    IN  [key \in AllFields |->
            IF key \in kept THEN data[key]
            ELSE IF key \in seeded THEN SeedValue(model[key].seed, gen)
            ELSE Absent]

seedHashes(model, data, gens) ==
    [i \in 1..Len(data) |-> seedHash(model, data[i], gens[i])]

\* the substring after the last separator
parseIndexLast(value) ==
    LET seps == {i \in 1..Len(value) : value[i] = Sep}
        last == IF seps = {} THEN 0 ELSE CHOOSE i \in seps : \A j \in seps : j <= i
    IN  SubSeq(value, last + 1, Len(value))

parseIndex(value) == SubSeq(value, IndexOf(value, Sep) + 1, Len(value))

getIndices(model) == SelectSeq(FieldOrder, LAMBDA key : key \in DOMAIN model /\ model[key].lexical)

\* HGETALL of a key that does not exist answers null; a hash that exists
\* has at least one field
Null == NoFields
IsNull(reply) == Keys(reply) = {}

\* pruneObject(model, prunee): the properties of prunee that model has;
\* prunee[prop] of null is a TypeError
pruneObject(model, prunee) ==
    IF IsNull(prunee) THEN [threw |-> TRUE, obj |-> NoFields]
    ELSE [threw |-> FALSE,
          obj |-> [prop \in AllFields |-> IF Has(model, prop) THEN prunee[prop] ELSE Absent]]

---------------------------------------------------------------------------
(* src/lib/queries.js: the commands of a batch.  A command is             *)
(* [cmd, key, h, tok]: h the field/value pairs of an hmset, tok the member *)
(* of a zadd / zrem.                                                       *)

Cmd(c, key, h, tok) == [cmd |-> c, key |-> key, h |-> h, tok |-> tok]

\* a compiled batch, or the TypeError its compilation raised
Compiled(query, ids) == [threw |-> FALSE, query |-> query, ids |-> ids]
Threw == [threw |-> TRUE, query |-> <<>>, ids |-> <<>>]

\* ['zadd', key, 0, token], or ['zrem', key, token] when remove is set
index(name, prop, id, value, remove) ==
    Cmd(IF remove THEN "zrem" ELSE "zadd",
        formatKey(name, FieldChars(prop), IndexSub), NoFields, formatIndex(value, id))

\* ['hmset', key, field, value, ...]
create(name, id, hash) == Cmd("hmset", formatKey(name, id.s, <<>>), hash, <<>>)

get(name, id) == Cmd("hgetall", formatKey(name, id.s, <<>>), NoFields, <<>>)

remove(name, id) == Cmd("del", formatKey(name, id.s, <<>>), NoFields, <<>>)

\* hash.id; String(undefined) when the hash has no id
Undefined == Str(<<"u", "n", "d", "e", "f", "i", "n", "e", "d">>)
IdOf(hash) == IF Has(hash, "id") THEN hash.id ELSE Undefined

\* an index command for every property of the model, lexical or not
multiIndexAll(name, model, hash, rem) ==
    LET props == SelectSeq(FieldOrder,
                           LAMBDA prop : prop \in DOMAIN model /\ TruthyAt(hash, prop))
    IN  [i \in 1..Len(props) |-> index(name, props[i], IdOf(hash), hash[props[i]], rem)]

\* one index command per lexical property whose value in hash is truthy
multiIndex(name, model, hash, rem) ==
    LET props == SelectSeq(getIndices(model), LAMBDA prop : TruthyAt(hash, prop))
    IN  [i \in 1..Len(props) |-> index(name, props[i], IdOf(hash), hash[props[i]], rem)]

\* Inside createAndIndex the parameter remove shadows the function remove:
\* with remove = true, remove(name, hash.id) calls the boolean, a TypeError.
createAndIndex(name, model, hash, rem) ==
    IF rem THEN Threw
    ELSE Compiled(<<create(name, IdOf(hash), hash)>> \o multiIndex(name, model, hash, rem),
                  <<IdOf(hash)>>)

\* the images joined with the id list in reverse order
RECURSIVE ConcatReversed(_)
ConcatReversed(parts) ==
    IF parts = <<>> THEN [threw |-> FALSE, query |-> <<>>, ids |-> <<>>]
    ELSE LET rest == ConcatReversed(Tail(parts))
         IN  IF Head(parts).threw \/ rest.threw
             THEN [threw |-> TRUE, query |-> <<>>, ids |-> <<>>]
             ELSE [threw |-> FALSE, query |-> Head(parts).query \o rest.query,
                   ids |-> rest.ids \o Head(parts).ids]

RECURSIVE Concat(_)
Concat(parts) ==
    IF parts = <<>> THEN Compiled(<<>>, <<>>)
    ELSE LET rest == Concat(Tail(parts))
         IN  IF Head(parts).threw \/ rest.threw THEN Threw
             ELSE Compiled(Head(parts).query \o rest.query, Head(parts).ids \o rest.ids)

multiCreate(name, model, data) ==
    Concat([i \in 1..Len(data) |-> createAndIndex(name, model, data[i], FALSE)])

multiRemove(name, model, data) ==
    Concat([i \in 1..Len(data) |-> createAndIndex(name, model, data[i], TRUE)])

multiGet(name, data) == [i \in 1..Len(data) |-> get(name, data[i])]

\* per record, the record first given every property of the model, the
\* string 'undefined' for those it lacks
UpdateOneSerialized(name, model, hash, old) ==
    LET full == [key \in AllFields |->
                    IF key \in DOMAIN model /\ ~Has(hash, key)
                    THEN Str(<<"u", "n", "d", "e", "f", "i", "n", "e", "d">>)
                    ELSE hash[key]]
        oldHash == pruneObject(full, old)
        set == createAndIndex(name, model, full, FALSE)
    IN  IF oldHash.threw \/ set.threw THEN Threw
        ELSE Compiled(set.query \o multiIndex(name, model, oldHash.obj, TRUE), set.ids)

\* per record: the hmset and zadds of the new hash, then a zrem for every
\* lexical property of the new hash that the old hash holds a truthy value of
UpdateOne(name, model, hash, old) ==
    LET oldHash == pruneObject(hash, old)
        set == createAndIndex(name, model, hash, FALSE)
    IN  IF oldHash.threw \/ set.threw THEN Threw
        ELSE Compiled(set.query \o multiIndex(name, model, oldHash.obj, TRUE), set.ids)

multiUpdate(name, model, data, oldData) ==
    Concat([i \in 1..Len(data) |-> UpdateOne(name, model, data[i], oldData[i])])

---------------------------------------------------------------------------
(* Redis: the keyspace and the commands the library issues.  A key that is *)
(* not in DOMAIN db does not exist; a hash or sorted set that becomes      *)
(* empty ceases to exist.                                                  *)

HashEntry(h) == [type |-> "hash", h |-> h, z |-> {}]
ZsetEntry(z) == [type |-> "zset", h |-> NoFields, z |-> z]
NoKeys == [k \in {} |-> HashEntry(NoFields)]

TypeOf(d, key) == IF key \in DOMAIN d THEN d[key].type ELSE "none"

Put(d, key, entry) == [k \in DOMAIN d \cup {key} |-> IF k = key THEN entry ELSE d[k]]
Drop(d, key) == [k \in DOMAIN d \ {key} |-> d[k]]

\* a reply: the hash of an HGETALL (null when the key does not exist), or
\* a count / status, or a WRONGTYPE error
Reply(h, n, err) == [h |-> h, n |-> n, err |-> err]

HGetAll(d, key) == IF TypeOf(d, key) = "hash" THEN d[key].h ELSE Null
ZMembers(d, key) == IF TypeOf(d, key) = "zset" THEN d[key].z ELSE {}

\* the keyspace after one command, and the command's reply
Apply(d, c) ==
    LET t == TypeOf(d, c.key)
    IN  CASE c.cmd = "hmset" ->
                IF t = "zset" THEN [db |-> d, reply |-> Reply(Null, 0, TRUE)]
                ELSE [db |-> Put(d, c.key,
                                 HashEntry([f \in AllFields |->
                                     IF Has(c.h, f) THEN Stored(c.h[f])
                                     ELSE HGetAll(d, c.key)[f]])),
                      reply |-> Reply(Null, 1, FALSE)]
          [] c.cmd = "hgetall" ->
                IF t = "zset" THEN [db |-> d, reply |-> Reply(Null, 0, TRUE)]
                ELSE [db |-> d, reply |-> Reply(HGetAll(d, c.key), 0, FALSE)]
          [] c.cmd = "del" ->
                [db |-> Drop(d, c.key), reply |-> Reply(Null, IF t = "none" THEN 0 ELSE 1, FALSE)]
          [] c.cmd = "zadd" ->
                IF t = "hash" THEN [db |-> d, reply |-> Reply(Null, 0, TRUE)]
                ELSE [db |-> Put(d, c.key, ZsetEntry(ZMembers(d, c.key) \cup {c.tok})),
                      reply |-> Reply(Null, IF c.tok \in ZMembers(d, c.key) THEN 0 ELSE 1, FALSE)]
          [] OTHER -> \* zrem
                IF t = "hash" THEN [db |-> d, reply |-> Reply(Null, 0, TRUE)]
                ELSE IF c.tok \notin ZMembers(d, c.key)
                     THEN [db |-> d, reply |-> Reply(Null, 0, FALSE)]
                ELSE IF ZMembers(d, c.key) = {c.tok}
                     THEN [db |-> Drop(d, c.key), reply |-> Reply(Null, 1, FALSE)]
                ELSE [db |-> Put(d, c.key, ZsetEntry(ZMembers(d, c.key) \ {c.tok})),
                      reply |-> Reply(Null, 1, FALSE)]

\* MULTI ... EXEC: the commands of a batch applied in order, as one step
RECURSIVE Exec(_, _)
Exec(d, query) ==
    IF query = <<>> THEN [db |-> d, replies |-> <<>>]
    ELSE LET one == Apply(d, Head(query))
             rest == Exec(one.db, Tail(query))
         IN  [db |-> rest.db, replies |-> <<one.reply>> \o rest.replies]

\* ZRANGEBYLEX key min max with both bounds inclusive ('[' prefix)
ZRangeByLex(d, key, min, max) ==
    SortLex({m \in ZMembers(d, key) : LexLeq(min, m) /\ LexLeq(m, max)})

---------------------------------------------------------------------------
(* src/unnamed/part_000: the joi schemas.  A rule is the name of the joi   *)
(* object of a property.                                                   *)

Digits == {"0", "1", "2", "3", "5"}

\* joi.string(): a string, and not the empty one
IsString(v) == v.ty = "string" /\ v.s # <<>>
\* joi.number().integer(): a number, or a string that converts to one
IsInteger(v) ==
    \/ v.ty = "number"
    \/ v.ty = "string" /\ v.s # <<>> /\ \A i \in 1..Len(v.s) : v.s[i] \in Digits
IsBoolean(v) == v.ty = "boolean"

Passes(rule, h, key) ==
    CASE rule = "string.required" -> Has(h, key) /\ IsString(h[key])
      [] rule = "string" -> Has(h, key) => IsString(h[key])
      [] rule = "integer.required" -> Has(h, key) /\ IsInteger(h[key])
      [] rule = "integer" -> Has(h, key) => IsInteger(h[key])
      [] rule = "boolean" -> Has(h, key) => IsBoolean(h[key])
      [] rule = "any.required" -> Has(h, key)
      [] OTHER -> TRUE

\* joi converts the value as it validates: a numeric string becomes a number
Converted(rule, v) ==
    IF rule \in {"integer", "integer.required"} /\ v.ty = "string" THEN Num(v.s) ELSE v

\* joi.object().keys(...): every key known, every rule passed
ObjectPasses(schema, h) ==
    /\ Keys(h) \subseteq DOMAIN schema
    /\ \A key \in DOMAIN schema : Passes(schema[key], h, key)

ObjectConverted(schema, h) ==
    [key \in AllFields |-> IF Has(h, key) THEN Converted(schema[key], h[key]) ELSE Absent]

\* schemas.create(model, update)
schemasCreate(model, update) ==
    [key \in DOMAIN model |->
        IF update THEN model[key].updateValidate ELSE model[key].validate]

\* joi.array().min(1).items(schema).required()
ArrayPasses(schema, data) ==
    Len(data) >= 1 /\ \A i \in 1..Len(data) : ObjectPasses(schema, data[i])

createSchema == schemasCreate(Model, FALSE)
\* an update schema that does not require id
updateSchemaIdOptional == [schemasCreate(Model, TRUE) EXCEPT !.id = "string"]
updateSchema == schemasCreate(Model, TRUE)

\* schemas.arrStr
arrStrPasses(data) == Len(data) >= 1 /\ \A i \in 1..Len(data) : IsString(data[i])

\* schemas.search: field and term required strings, get an optional boolean
\* (a request of the model always names a field; offest and count are not
\* used)
searchPasses(data) ==
    /\ IsString(data.term)
    /\ data.get.ty \in {"undefined", "boolean"}

---------------------------------------------------------------------------
(* The hooks of the options object: the README's serializeHash and         *)
(* deserializeHash, acting on the location field.                          *)

NoHooks == [preCreate |-> FALSE, preUpdate |-> FALSE, postGet |-> FALSE]
ReadmeHooks == [preCreate |-> TRUE, preUpdate |-> TRUE, postGet |-> TRUE]
HookConfigs == {NoHooks, ReadmeHooks}

serializeHash(hash) ==
    IF Has(hash, "location")
    THEN [hash EXCEPT !.location = Str(<<"s">> \o @.s)]
    ELSE hash

\* hash.location = ... on null is a TypeError
deserializeThrows(hash) == IsNull(hash)
deserializeHash(hash) ==
    IF Has(hash, "location") /\ hash.location.s # <<>> /\ Head(hash.location.s) = "s"
    THEN [hash EXCEPT !.location = Str(Tail(@.s))]
    ELSE hash

---------------------------------------------------------------------------
(* The arguments callers pass. *)

IdVals == {Str(i) : i \in Ids}

\* lists of 1..MaxBatch elements: the first from first, the others from more
RECURSIVE Lists(_, _, _)
Lists(first, more, n) ==
    IF n = 0 THEN {}
    ELSE {<<x>> : x \in first} \cup
         {l \o <<y>> : l \in Lists(first, more, n - 1), y \in more}

\* the arrays a caller passes: of 1..MaxBatch values, or empty
Arrays(first, more) == Lists(first, more, MaxBatch) \cup {<<>>}

\* the argument: the array l, or its only element passed as a single value
Arg(l, single) == IF single THEN One(l[1]) ELSE Arr(l)

CreateRecs ==
    {Obj([name |-> v]) : v \in {Oscar, Bob, Empty, Zero, False}}
    \cup {Obj([id |-> i, name |-> v]) : i \in IdVals, v \in {Oscar, Bob}}
    \cup {NoFields,
          Obj([name |-> Oscar, location |-> Empty]),
          Obj([name |-> Oscar, created |-> Five]),
          Obj([name |-> Oscar, created |-> Bob])}
CreateMore == {Obj([name |-> Bob])}

UpdateRecs ==
    {Obj([id |-> i, name |-> v]) : i \in IdVals, v \in {Oscar, oscar, Bob}}
    \cup {Obj([id |-> i, created |-> Five]) : i \in IdVals}
    \cup {Obj([id |-> IdVal(<<IdPool[1]>>)]),
          Obj([id |-> IdVal(<<IdPool[1]>>), bogus |-> Oscar]),
          Obj([id |-> IdVal(<<IdPool[1]>>), location |-> Home])}
    \cup {Obj([name |-> Oscar]), Obj([id |-> Five, name |-> Oscar])}
UpdateMore == {Obj([id |-> i, name |-> Bob]) : i \in IdVals}

IdArgs == IdVals \cup {Five, Empty}

osc == Str(<<"o", "s", "c">>)
Osc == Str(<<"O", "s", "c">>)
car == Str(<<"c", "a", "r">>)
SearchTerms == {osc, Osc, car, Str(<<"o", "s", "c", "a", "r", ":">>), Empty}
SearchFields == {"name", "created", "location", "bogus"}
SearchReqs ==
    {[field |-> f, term |-> t, get |-> Absent] : f \in SearchFields, t \in SearchTerms}
    \cup {[field |-> f, term |-> t, get |-> True] : f \in {"name"}, t \in {osc, car}}
    \cup {[field |-> "location", term |-> osc, get |-> True]}
    \cup {[field |-> "name", term |-> Absent, get |-> Absent]}

---------------------------------------------------------------------------
(* How a call ends. *)

NoResult == [kind |-> "none", err |-> "", v |-> <<>>]
Ok(v) == [kind |-> "ok", err |-> "", v |-> v]
Err(e) == [kind |-> "error", err |-> e, v |-> <<>>]
\* an exception left the step: the callback is never invoked
Thrown == [kind |-> "threw", err |-> "TypeError", v |-> <<>>]
\* the callback was dropped: nothing is ever delivered
Lost == [kind |-> "lost", err |-> "", v |-> <<>>]

Carry(v, query, ids) == [v |-> v, query |-> query, ids |-> ids]

\* the library keeps no state between calls: a call starts from scratch
Idle == pc = "idle"

\* no helper applied on its own
NoProbe == [fn |-> "none", args |-> <<>>, out |-> <<>>]

\* no second call in flight
NoOther == [op |-> "idle", pc |-> "idle", input |-> <<>>,
            carry |-> Carry(<<>>, <<>>, <<>>), result |-> NoResult]

\* a create or update whose waterfall starts at the hook step
BeginAtHook(o, in, first) ==
    /\ op' = o
    /\ pc' = IF o \in {"create", "update"} THEN "hook" ELSE "validate"
    /\ input' = in
    /\ carry' = Carry(first, <<>>, <<>>)
    /\ result' = NoResult
    /\ trips' = 0
    /\ hooked' = FALSE
    /\ snap' = db
    /\ UNCHANGED <<db, opts>>

\* a call begins: nothing issued yet, the keyspace remembered
Begin(o, in, first) ==
    /\ op' = o
    /\ pc' = "validate"
    /\ input' = in
    /\ carry' = Carry(first, <<>>, <<>>)
    /\ result' = NoResult
    /\ trips' = 0
    /\ hooked' = FALSE
    /\ snap' = db
    /\ UNCHANGED <<db, opts>>

Finish(r) ==
    /\ pc' = "done"
    /\ result' = r

\* ids that shortid.generate can return: it is random, so never the id of
\* a stored record nor one the caller names in this call
Unused(data) ==
    {i \in Ids : /\ formatKey(ModelName, i, <<>>) \notin DOMAIN db
                 /\ \A k \in 1..Len(data) : data[k].id # Str(i)}

---------------------------------------------------------------------------
(* src/lib/index.js: the public methods.  Each method builds a waterfall;  *)
(* vasync invokes the first step with the callback alone and every later   *)
(* step with the values of the step before it followed by the callback.    *)

\* create (112-121): the records are seeded before the waterfall starts
CallCreate ==
    /\ Idle
    /\ \E l \in Arrays(CreateRecs, CreateMore), single \in BOOLEAN :
        /\ single => Len(l) = 1
        /\ LET data == wrapArray(Arg(l, single))
               need == {k \in 1..Len(data) : ~TruthyAt(data[k], "id")}
           IN  \E g \in [need -> Unused(data)], ts \in [1..Len(data) -> Times] :
                /\ \A j, k \in need : j # k => g[j] # g[k]
                /\ LET gens == [k \in 1..Len(data) |->
                                   [id |-> IF k \in need THEN g[k] ELSE <<>>, now |-> ts[k]]]
                   IN  Begin("create", data, seedHashes(Model, data, gens))
    /\ UNCHANGED <<other, probe>>

\* update (134-144)
CallUpdate ==
    /\ Idle
    /\ \E l \in Arrays(UpdateRecs, UpdateMore), single \in BOOLEAN :
        /\ single => Len(l) = 1
        /\ Begin("update", wrapArray(Arg(l, single)), wrapArray(Arg(l, single)))
    /\ UNCHANGED <<other, probe>>

\* remove (123-132)
CallRemove ==
    /\ Idle
    /\ \E l \in Arrays(IdArgs, IdVals), single \in BOOLEAN :
        /\ single => Len(l) = 1
        /\ Begin("remove", wrapArray(Arg(l, single)), wrapArray(Arg(l, single)))
    /\ UNCHANGED <<other, probe>>

\* get (146-155)
CallGet ==
    /\ Idle
    /\ \E l \in Arrays(IdArgs, IdVals), single \in BOOLEAN :
        /\ single => Len(l) = 1
        /\ Begin("get", wrapArray(Arg(l, single)), wrapArray(Arg(l, single)))
    /\ UNCHANGED <<other, probe>>

\* search (157-173): data.get is read when the waterfall is built
CallSearch ==
    /\ Idle
    /\ \E d \in SearchReqs : Begin("search", d, d)
    /\ UNCHANGED <<other, probe>>

\* the step after a successful validation
AfterValidate(o) ==
    CASE o \in {"create", "update"} -> "hook"
      [] o = "remove" -> "read"
      [] o = "get" -> "idsToGet"
      [] OTHER -> "toSearch"

\* the schema a method validates with: create and update both validate with
\* updateSchema (116, 138), remove and get with arrStr, search with its own
ValidInput(o, data) ==
    CASE o \in {"create", "update"} -> ArrayPasses(updateSchema, data)
      [] o \in {"remove", "get"} -> arrStrPasses(data)
      [] OTHER -> searchPasses(data)

ValidatedValue(o, data) ==
    IF o \in {"create", "update"}
    THEN [k \in 1..Len(data) |-> ObjectConverted(updateSchema, data[k])]
    ELSE data

\* validate with the verdict of the schema ignored: every input goes on
ValidateUnchecked ==
    /\ pc = "validate"
    /\ pc' = AfterValidate(op)
    /\ carry' = Carry(ValidatedValue(op, carry.v), <<>>, <<>>)
    /\ UNCHANGED <<db, opts, op, input, result, trips, hooked, snap>>
    /\ UNCHANGED <<other, probe>>

\* validate (103-105): schema.validate(data, callback)
Validate ==
    /\ pc = "validate"
    /\ IF ValidInput(op, carry.v)
       THEN /\ pc' = AfterValidate(op)
            /\ carry' = Carry(ValidatedValue(op, carry.v), <<>>, <<>>)
            /\ UNCHANGED result
       ELSE /\ Finish(Err("ValidationError"))
            /\ UNCHANGED carry
    /\ UNCHANGED <<db, opts, op, input, trips, hooked, snap>>
    /\ UNCHANGED <<other, probe>>

\* asyncMap (45-50) with opts.preCreate / opts.preUpdate
AsyncMapPre ==
    /\ pc = "hook"
    /\ LET func == IF op = "create" THEN opts.preCreate ELSE opts.preUpdate
       IN  /\ carry' = IF func
                       THEN Carry([k \in 1..Len(carry.v) |-> serializeHash(carry.v[k])],
                                  <<>>, <<>>)
                       ELSE carry
           /\ hooked' = func
    /\ pc' = IF op = "create" THEN "compile" ELSE "read"
    /\ UNCHANGED <<db, opts, op, input, result, trips, snap>>
    /\ UNCHANGED <<other, probe>>

\* createImage (107-109)
CreateImage ==
    /\ pc = "compile"
    /\ LET image == multiCreate(ModelName, Model, carry.v)
       IN  carry' = Carry(carry.v, image.query, image.ids)
    /\ pc' = "exec"
    /\ UNCHANGED <<db, opts, op, input, result, trips, hooked, snap>>
    /\ UNCHANGED <<other, probe>>

\* the commands of the image sent to the store one by one
MultiExecImageSplit ==
    /\ pc = "exec"
    /\ trips' = trips + 1
    /\ IF Len(carry.query) > 1
       THEN /\ db' = Apply(db, Head(carry.query)).db
            /\ carry' = [carry EXCEPT !.query = Tail(@)]
            /\ UNCHANGED <<pc, result>>
       ELSE /\ db' = Exec(db, carry.query).db
            /\ Finish(Ok(carry.ids))
            /\ UNCHANGED carry
    /\ UNCHANGED <<opts, op, input, hooked, snap>>
    /\ UNCHANGED <<other, probe>>

\* a failed batch is sent once more before the error is passed on
MultiExecImageRetry ==
    /\ pc = "exec"
    /\ trips' = trips + 1
    /\ \E fails \in BOOLEAN :
        IF fails
        THEN /\ IF trips < 2
                THEN UNCHANGED <<pc, result>>
                ELSE Finish(Err("StoreError"))
             /\ UNCHANGED db
        ELSE /\ db' = Exec(db, carry.query).db
             /\ Finish(Ok(carry.ids))
    /\ UNCHANGED <<opts, op, input, carry, hooked, snap>>
    /\ UNCHANGED <<other, probe>>

\* multiexecimage (92-97): the batch as one MULTI/EXEC; the ids on success
MultiExecImage ==
    /\ pc = "exec"
    /\ trips' = trips + 1
    /\ \E fails \in BOOLEAN :
        IF fails
        THEN /\ Finish(Err("StoreError"))
             /\ UNCHANGED db
        ELSE /\ db' = Exec(db, carry.query).db
             /\ Finish(Ok(carry.ids))
    /\ UNCHANGED <<opts, op, input, carry, hooked, snap>>
    /\ UNCHANGED <<other, probe>>

\* update (140) and remove (128): curry(multiexec)(query) is the step, and
\* the waterfall invokes it with (value, callback), so multiexec(query,
\* value, callback) runs client.multi(query).exec(value): the read batch is
\* sent, its reply goes to value, an array, and the waterfall's callback is
\* dropped.  The client either ignores the non-function or raises a
\* TypeError calling it; the call never completes either way.
MultiExecShifted ==
    /\ pc = "read"
    /\ trips' = trips + 1
    /\ \E r \in {Lost, Thrown} : Finish(r)
    /\ UNCHANGED <<db, opts, op, input, carry, hooked, snap>>
    /\ UNCHANGED <<other, probe>>

\* idsToGet (41-43)
IdsToGet ==
    /\ pc = "idsToGet"
    /\ carry' = Carry(carry.v, multiGet(ModelName, carry.v), <<>>)
    /\ pc' = "getexec"
    /\ UNCHANGED <<db, opts, op, input, result, trips, hooked, snap>>
    /\ UNCHANGED <<other, probe>>

\* multiexec (88-90) of a batch of HGETALLs: the hashes, null for a key
\* that does not exist
MultiExecGet ==
    /\ pc = "getexec"
    /\ trips' = trips + 1
    /\ \E fails \in BOOLEAN :
        IF fails
        THEN /\ Finish(Err("StoreError"))
             /\ UNCHANGED carry
        ELSE /\ LET replies == Exec(db, carry.query).replies
                IN  carry' = Carry([k \in 1..Len(replies) |-> replies[k].h], <<>>, <<>>)
             /\ pc' = "post"
             /\ UNCHANGED result
    /\ UNCHANGED <<db, opts, op, input, hooked, snap>>
    /\ UNCHANGED <<other, probe>>

\* asyncMap (45-50) with opts.postGet
AsyncMapPost ==
    /\ pc = "post"
    /\ IF ~opts.postGet THEN Finish(Ok(carry.v))
       ELSE IF \E k \in 1..Len(carry.v) : deserializeThrows(carry.v[k]) THEN Finish(Thrown)
       ELSE Finish(Ok([k \in 1..Len(carry.v) |-> deserializeHash(carry.v[k])]))
    /\ hooked' = opts.postGet
    /\ UNCHANGED <<db, opts, op, input, carry, trips, snap>>
    /\ UNCHANGED <<other, probe>>

\* toSearch (52-57): the index key and the range ['[' + term, '[' + term + '\xff']
ToSearch ==
    /\ pc = "toSearch"
    /\ carry' = Carry(<<formatKey(ModelName, FieldChars(carry.v.field), IndexSub),
                        carry.v.term.s, carry.v.term.s \o <<"xFF">> >>, <<>>, <<>>)
    /\ pc' = "range"
    /\ UNCHANGED <<db, opts, op, input, result, trips, hooked, snap>>
    /\ UNCHANGED <<other, probe>>

\* zrangebylex (99-101)
ZRangeByLexStep ==
    /\ pc = "range"
    /\ trips' = trips + 1
    /\ \E fails \in BOOLEAN :
        IF fails \/ TypeOf(db, carry.v[1]) = "hash"
        THEN /\ Finish(Err("StoreError"))
             /\ UNCHANGED carry
        ELSE /\ carry' = Carry(ZRangeByLex(db, carry.v[1], carry.v[2], carry.v[3]), <<>>, <<>>)
             /\ pc' = "parse"
             /\ UNCHANGED result
    /\ UNCHANGED <<db, opts, op, input, hooked, snap>>
    /\ UNCHANGED <<other, probe>>

\* parseSearch (37-39); with data.get the get steps follow (165-171)
ParseSearch ==
    /\ pc = "parse"
    /\ LET ids == [k \in 1..Len(carry.v) |-> Str(parseIndex(carry.v[k]))]
       IN  IF Truthy(input.get)
           THEN /\ carry' = Carry(ids, <<>>, <<>>)
                /\ pc' = "idsToGet"
                /\ UNCHANGED result
           ELSE /\ Finish(Ok(ids))
                /\ UNCHANGED carry
    /\ UNCHANGED <<db, opts, op, input, trips, hooked, snap>>
    /\ UNCHANGED <<other, probe>>

\* the callback has returned: nothing of the call remains
Return ==
    /\ pc = "done"
    /\ op' = "idle"
    /\ pc' = "idle"
    /\ input' = <<>>
    /\ carry' = Carry(<<>>, <<>>, <<>>)
    /\ result' = NoResult
    /\ trips' = 0
    /\ hooked' = FALSE
    /\ snap' = NoKeys
    /\ UNCHANGED <<db, opts>>
    /\ UNCHANGED <<other, probe>>

Init ==
    /\ db = NoKeys
    /\ opts \in HookConfigs
    /\ op = "idle"
    /\ pc = "idle"
    /\ input = <<>>
    /\ carry = Carry(<<>>, <<>>, <<>>)
    /\ result = NoResult
    /\ trips = 0
    /\ hooked = FALSE
    /\ snap = NoKeys
    /\ other = NoOther
    /\ probe = NoProbe

Next ==
    \/ CallCreate \/ CallUpdate \/ CallRemove \/ CallGet \/ CallSearch
    \/ Validate \/ AsyncMapPre \/ CreateImage \/ MultiExecImage
    \/ MultiExecShifted
    \/ IdsToGet \/ MultiExecGet \/ AsyncMapPost
    \/ ToSearch \/ ZRangeByLexStep \/ ParseSearch
    \/ Return

Spec == Init /\ [][Next]_vars

\* a step of a call of create, update, remove or get
CallSteps ==
    \/ Validate \/ AsyncMapPre \/ CreateImage \/ MultiExecImage
    \/ MultiExecShifted
    \/ IdsToGet \/ MultiExecGet \/ AsyncMapPost
    \/ Return

\* the calls whose ids may have no stored hash, and their steps
NextLive ==
    \/ CallCreate \/ CallUpdate \/ CallRemove \/ CallGet
    \/ CallSteps

\* Callers start calls when they please; a step that is ready runs: the
\* waterfall invokes the next step as soon as the step before it calls back,
\* and the store answers every request.  Every step moves pc.
SpecLive == Init /\ [][NextLive]_vars /\ WF_pc(CallSteps)

---------------------------------------------------------------------------
(* The update and remove pipelines with the read's reply delivered to the  *)
(* compile step, the order the step arrays of update (137-143) and remove  *)
(* (126-131) list: read the current hashes, compile from them              *)
(* (getToUpdate, getToRemove), execute the batch.  SpecPipeline runs the   *)
(* query compiler of src/lib/queries.js on the hashes read back; Spec      *)
(* above runs the steps as the waterfall invokes them.                     *)

\* multiexec (88-90) of queries.multiGet(name, ids): the current hashes
MultiExecRead ==
    /\ pc = "read"
    /\ trips' = trips + 1
    /\ \E fails \in BOOLEAN :
        IF fails
        THEN /\ Finish(Err("StoreError"))
             /\ UNCHANGED carry
        ELSE /\ LET ids == [k \in 1..Len(input) |->
                               IF op = "update" THEN IdOf(input[k]) ELSE input[k]]
                    replies == Exec(db, multiGet(ModelName, ids)).replies
                IN  carry' = Carry([k \in 1..Len(replies) |-> replies[k].h], <<>>, <<>>)
             /\ pc' = "getTo"
             /\ UNCHANGED result
    /\ UNCHANGED <<db, opts, op, input, hooked, snap>>
    /\ UNCHANGED <<other, probe>>

\* getToUpdate (33-35): compiled from data, the caller's records as passed
\* to update (141), and the hashes read; an exception of the compiler
\* leaves the step
GetToUpdate ==
    /\ pc = "getTo"
    /\ op = "update"
    /\ LET image == multiUpdate(ModelName, Model, input, carry.v)
       IN  IF image.threw
           THEN /\ Finish(Thrown)
                /\ UNCHANGED carry
           ELSE /\ carry' = Carry(carry.v, image.query, image.ids)
                /\ pc' = "exec"
                /\ UNCHANGED result
    /\ UNCHANGED <<db, opts, op, input, trips, hooked, snap>>
    /\ UNCHANGED <<other, probe>>

\* getToRemove (29-31)
GetToRemove ==
    /\ pc = "getTo"
    /\ op = "remove"
    /\ LET image == multiRemove(ModelName, Model, carry.v)
       IN  IF image.threw
           THEN /\ Finish(Thrown)
                /\ UNCHANGED carry
           ELSE /\ carry' = Carry(carry.v, image.query, image.ids)
                /\ pc' = "exec"
                /\ UNCHANGED result
    /\ UNCHANGED <<db, opts, op, input, trips, hooked, snap>>
    /\ UNCHANGED <<other, probe>>

NextPipeline ==
    \/ CallCreate \/ CallUpdate \/ CallRemove \/ CallGet \/ CallSearch
    \/ Validate \/ AsyncMapPre \/ CreateImage \/ MultiExecImage
    \/ MultiExecRead \/ GetToUpdate \/ GetToRemove
    \/ IdsToGet \/ MultiExecGet \/ AsyncMapPost
    \/ ToSearch \/ ZRangeByLexStep \/ ParseSearch
    \/ Return

SpecPipeline == Init /\ [][NextPipeline]_vars

---------------------------------------------------------------------------
(* Two updates in flight.  Node runs one callback at a time, but a call    *)
(* yields at every store round trip, and the model object holds no lock    *)
(* and no queue: a second update (134-144) may be started, and any of its  *)
(* steps may run, whenever the first call is between two of its steps.     *)
(* The second update runs the same step array: validate, preUpdate hook,   *)
(* read, getToUpdate, multiexecimage.                                      *)

\* the record the two callers race on
RaceId == IdVal(<<IdPool[1]>>)

\* the records the second caller passes to update
OtherRecs == {Obj([id |-> RaceId, name |-> Home]), Obj([name |-> Home])}

\* the records the first caller creates and updates while a second is about
RaceCreates ==
    {Obj([id |-> RaceId, name |-> Oscar]), Obj([id |-> IdVal(<<IdPool[2]>>), name |-> Oscar])}
RaceUpdates == {Obj([id |-> RaceId, name |-> Bob])}

\* update (134-144), second caller
OtherUpdate ==
    /\ other.pc = "idle"
    /\ \E r \in OtherRecs :
        other' = [op |-> "update", pc |-> "validate", input |-> wrapArray(One(r)),
                  carry |-> Carry(wrapArray(One(r)), <<>>, <<>>), result |-> NoResult]
    /\ UNCHANGED <<db, opts, op, pc, input, carry, result, trips, hooked, snap>>
    /\ UNCHANGED probe

\* remove (123-132), second caller
OtherRemove ==
    /\ other.pc = "idle"
    /\ other' = [op |-> "remove", pc |-> "validate", input |-> wrapArray(One(RaceId)),
                 carry |-> Carry(wrapArray(One(RaceId)), <<>>, <<>>), result |-> NoResult]
    /\ UNCHANGED <<db, opts, op, pc, input, carry, result, trips, hooked, snap>>
    /\ UNCHANGED probe

\* validate (103-105) with updateSchema (138) or schemas.arrStr (127)
OtherValidate ==
    /\ other.pc = "validate"
    /\ other' = IF ValidInput(other.op, other.carry.v)
                THEN [other EXCEPT !.pc = AfterValidate(other.op),
                                   !.carry = Carry(ValidatedValue(other.op, @.v), <<>>, <<>>)]
                ELSE [other EXCEPT !.pc = "done", !.result = Err("ValidationError")]
    /\ UNCHANGED <<db, opts, op, pc, input, carry, result, trips, hooked, snap>>
    /\ UNCHANGED probe

\* asyncMap (45-50) with opts.preUpdate (139)
OtherAsyncMapPre ==
    /\ other.pc = "hook"
    /\ other' = [other EXCEPT
                    !.pc = "read",
                    !.carry = IF opts.preUpdate
                              THEN Carry([k \in 1..Len(@.v) |-> serializeHash(@.v[k])],
                                         <<>>, <<>>)
                              ELSE @]
    /\ UNCHANGED <<db, opts, op, pc, input, carry, result, trips, hooked, snap>>
    /\ UNCHANGED probe

\* multiexec (88-90) of queries.multiGet(name, map(data, 'id')) (140), of
\* queries.multiGet(name, data) (128)
OtherMultiExecRead ==
    /\ other.pc = "read"
    /\ \E fails \in BOOLEAN :
        IF fails
        THEN other' = [other EXCEPT !.pc = "done", !.result = Err("StoreError")]
        ELSE LET ids == [k \in 1..Len(other.input) |->
                            IF other.op = "update" THEN IdOf(other.input[k])
                            ELSE other.input[k]]
                 replies == Exec(db, multiGet(ModelName, ids)).replies
             IN  other' = [other EXCEPT
                              !.pc = "getTo",
                              !.carry = Carry([k \in 1..Len(replies) |-> replies[k].h],
                                              <<>>, <<>>)]
    /\ UNCHANGED <<db, opts, op, pc, input, carry, result, trips, hooked, snap>>
    /\ UNCHANGED probe

\* getToUpdate (33-35) from the caller's records (141) and the hashes read
OtherGetToUpdate ==
    /\ other.pc = "getTo"
    /\ other.op = "update"
    /\ LET image == multiUpdate(ModelName, Model, other.input, other.carry.v)
       IN  other' = IF image.threw
                    THEN [other EXCEPT !.pc = "done", !.result = Thrown]
                    ELSE [other EXCEPT !.pc = "exec",
                                       !.carry = Carry(@.v, image.query, image.ids)]
    /\ UNCHANGED <<db, opts, op, pc, input, carry, result, trips, hooked, snap>>
    /\ UNCHANGED probe

\* getToRemove (29-31) from the hashes read
OtherGetToRemove ==
    /\ other.pc = "getTo"
    /\ other.op = "remove"
    /\ LET image == multiRemove(ModelName, Model, other.carry.v)
       IN  other' = IF image.threw
                    THEN [other EXCEPT !.pc = "done", !.result = Thrown]
                    ELSE [other EXCEPT !.pc = "exec",
                                       !.carry = Carry(@.v, image.query, image.ids)]
    /\ UNCHANGED <<db, opts, op, pc, input, carry, result, trips, hooked, snap>>
    /\ UNCHANGED probe

\* the write batch compiled from the hashes the store holds when the batch
\* is sent, not from the hashes read a round trip earlier
OtherMultiExecImageFresh ==
    /\ other.pc = "exec"
    /\ LET ids == [k \in 1..Len(other.input) |-> IdOf(other.input[k])]
           replies == Exec(db, multiGet(ModelName, ids)).replies
           now == [k \in 1..Len(replies) |-> replies[k].h]
       IN  /\ db' = Exec(db, multiUpdate(ModelName, Model, other.input, now).query).db
           /\ other' = [other EXCEPT !.pc = "done", !.result = Ok(other.carry.ids)]
    /\ UNCHANGED <<opts, op, pc, input, carry, result, trips, hooked, snap>>
    /\ UNCHANGED probe

\* multiexecimage (92-97) of the image compiled by getToUpdate
OtherMultiExecImage ==
    /\ other.pc = "exec"
    /\ \E fails \in BOOLEAN :
        IF fails
        THEN /\ other' = [other EXCEPT !.pc = "done", !.result = Err("StoreError")]
             /\ UNCHANGED db
        ELSE /\ db' = Exec(db, other.carry.query).db
             /\ other' = [other EXCEPT !.pc = "done", !.result = Ok(other.carry.ids)]
    /\ UNCHANGED <<opts, op, pc, input, carry, result, trips, hooked, snap>>
    /\ UNCHANGED probe

\* the second caller's callback has returned
OtherReturn ==
    /\ other.pc = "done"
    /\ other' = NoOther
    /\ UNCHANGED <<db, opts, op, pc, input, carry, result, trips, hooked, snap>>
    /\ UNCHANGED probe

\* the first caller creates and updates single records; the second updates
\* or removes
NextConcurrent ==
    \/ CallCreate /\ input' \in {<<r>> : r \in RaceCreates}
    \/ CallUpdate /\ input' \in {<<r>> : r \in RaceUpdates}
    \/ Validate \/ AsyncMapPre \/ CreateImage \/ MultiExecImage
    \/ MultiExecRead \/ GetToUpdate
    \/ Return
    \/ OtherUpdate \/ OtherRemove
    \/ OtherValidate \/ OtherAsyncMapPre \/ OtherMultiExecRead
    \/ OtherGetToUpdate \/ OtherGetToRemove \/ OtherMultiExecImage \/ OtherReturn

SpecConcurrent == Init /\ [][NextConcurrent]_vars

---------------------------------------------------------------------------
(* src/lib/helpers.js on its own: formatKey, formatIndex and parseIndex    *)
(* applied to the strings the validators let through.  Ids, model names    *)
(* and field names are any non-empty string: joi.string() (MODEL.id,       *)
(* schemas.options.name, schemas.arrStr) admits every character, the       *)
(* separator included.                                                     *)

\* the strings of 1..n characters over an alphabet
Strings(alphabet, n) == UNION {[1..k -> alphabet] : k \in 1..n}

KeyChars == {"i", Sep}
KeyStrings == Strings(KeyChars, MaxChars)

ValueChars == {"O", Sep, " ", "+"}
IndexValues ==
    {Str(s) : s \in Strings(ValueChars, MaxChars) \cup {<<>>}} \cup {Zero, Five, False}
IndexIds == Strings({"a", Sep}, MaxChars - 1)

\* formatKey(name, id) of a record, formatKey(name, prop, SYMBOLS.index) of
\* an index (queries.js 13-38)
CallFormatKey ==
    /\ \E name \in KeyStrings, id \in KeyStrings, sub \in {<<>>, IndexSub} :
        probe' = [fn |-> "formatKey", args |-> <<Str(name), Str(id), Str(sub)>>,
                  out |-> formatKey(name, id, sub)]
    /\ UNCHANGED <<db, opts, op, pc, input, carry, result, trips, hooked, snap, other>>

\* formatIndex(value, id) (queries.js 17)
CallFormatIndex ==
    /\ \E value \in IndexValues, id \in IndexIds :
        probe' = [fn |-> "formatIndex", args |-> <<value, Str(id)>>,
                  out |-> formatIndex(value, Str(id))]
    /\ UNCHANGED <<db, opts, op, pc, input, carry, result, trips, hooked, snap, other>>

\* parseIndex of the token formatIndex built (index.js 37-39)
CallParseIndex ==
    /\ probe.fn = "formatIndex"
    /\ probe' = [fn |-> "parseIndex", args |-> <<Str(probe.out)>>,
                 out |-> parseIndex(probe.out)]
    /\ UNCHANGED <<db, opts, op, pc, input, carry, result, trips, hooked, snap, other>>

NextHelpers == CallFormatKey \/ CallFormatIndex \/ CallParseIndex

SpecHelpers == Init /\ [][NextHelpers]_vars

---------------------------------------------------------------------------
(* Reading the store: records, index keys, tokens. *)

RecordKey(i) == formatKey(ModelName, i, <<>>)
IndexKey(f) == formatKey(ModelName, FieldChars(f), IndexSub)
Lexical == Range(getIndices(Model))

\* the stored hashes of the model
Hashes(d) == {d[k].h : k \in {key \in DOMAIN d : d[key].type = "hash"}}
\* the tokens the stored hashes call for in the index of field f
Tokens(d, f) == {formatIndex(h[f], h.id) : h \in {g \in Hashes(d) : Has(g, f)}}
IndexConsistent(d) == \A f \in Lexical : ZMembers(d, IndexKey(f)) = Tokens(d, f)

\* the ids of a batch are pairwise different
DistinctIds(data) ==
    \A j, k \in 1..Len(data) : j # k => IdOf(data[j]) # IdOf(data[k])

\* what search({field: f, term: t}) answers on keyspace d (52-57, 99-101, 37-39)
SearchIds(d, f, t) ==
    LET found == ZRangeByLex(d, IndexKey(f), t.s, t.s \o <<"xFF">>)
    IN  [k \in 1..Len(found) |-> Str(parseIndex(found[k]))]

---------------------------------------------------------------------------
(* Index consistency. *)

\* C1: starting from the empty store, after every completed call of a serial
\* sequence of calls, the index sorted set of every lexical field f holds
\* exactly the tokens formatIndex(h[f], h.id) of the stored hashes h that
\* have f: no stale token, no missing token.
C1_IndexMatchesHashes ==
    pc \in {"idle", "done"} => IndexConsistent(db)

\* C2: an update of a live record whose new value of a lexical field
\* normalizes to the token the stored value has leaves that token in the
\* index: the batch does not add the token and then retract it.
C2_SameValueKeepsToken ==
    (pc = "done" /\ op = "update" /\ result.kind = "ok" /\ DistinctIds(input)) =>
        \A k \in 1..Len(input), f \in Lexical :
            LET old == HGetAll(snap, RecordKey(IdOf(input[k]).s))
                tok == formatIndex(input[k][f], IdOf(input[k]))
            IN  (/\ Has(input[k], f) /\ Has(old, f)
                 /\ tok = formatIndex(old[f], IdOf(input[k]))
                 /\ tok \in ZMembers(snap, IndexKey(f)))
                => tok \in ZMembers(db, IndexKey(f))

\* C3: search({field: f, term: t}) on a lexical field f returns exactly the
\* ids of the stored records whose f value, normalized, starts with t
\* normalized the same way: case insensitive in the term, prefix only.
C3_SearchIsNormalizedPrefix ==
    (/\ pc = "done" /\ op = "search" /\ result.kind = "ok"
     /\ ~Truthy(input.get) /\ input.field \in Lexical) =>
        Range(result.v) =
            {h.id : h \in {g \in Hashes(db) :
                            /\ Has(g, input.field)
                            /\ IsPrefix(Normalize(input.term.s),
                                        Normalize(g[input.field].s))}}

\* C4: an update of a live record leaves the stored value of the non-mutable
\* fields id and created, and the token of created in its index, as they
\* were, whatever value the update record gives them.
C4_NonMutableKept ==
    (pc = "done" /\ op = "update" /\ result.kind = "ok") =>
        \A k \in 1..Len(input) :
            LET key == RecordKey(IdOf(input[k]).s)
                old == HGetAll(snap, key)
                tok == formatIndex(old.created, old.id)
            IN  ~IsNull(old) =>
                    /\ HGetAll(db, key).id = old.id
                    /\ HGetAll(db, key).created = old.created
                    /\ (tok \in ZMembers(db, IndexKey("created")))
                         = (tok \in ZMembers(snap, IndexKey("created")))

---------------------------------------------------------------------------
(* Validation. *)

C6_CreateUsesCreateValidators ==
    [][(pc = "validate" /\ op = "create" /\ ~ArrayPasses(createSchema, carry.v)) =>
           (pc' = "done" /\ result' = Err("ValidationError") /\ db' = db)]_vars

---------------------------------------------------------------------------
(* Records that are not there. *)

\* the positions of a batch whose id had no stored hash when the call began
Missing(ids) == {k \in 1..Len(ids) : IsNull(HGetAll(snap, RecordKey(ids[k].s)))}

\* C7: an update naming an id that has no stored hash fails as a whole with
\* a not-found error delivered to the callback, and writes nothing.
C7_UpdateOfMissingIsNotFound ==
    (/\ pc = "done" /\ op = "update" /\ ArrayPasses(updateSchema, input)
     /\ result # Err("StoreError")
     /\ Missing([k \in 1..Len(input) |-> IdOf(input[k])]) # {}) =>
        (result = Err("NotFound") /\ db = snap)

\* C8: remove of one id: when the id is live the call succeeds and the hash
\* is gone; when it is not (the second remove of the same id), the call
\* yields a not-found error and the store is untouched.
C8_RemoveThenNotFound ==
    (/\ pc = "done" /\ op = "remove" /\ Len(input) = 1 /\ arrStrPasses(input)
     /\ result # Err("StoreError")) =>
        IF Missing(input) = {}
        THEN result.kind = "ok" /\ RecordKey(input[1].s) \notin DOMAIN db
        ELSE result = Err("NotFound") /\ db = snap

---------------------------------------------------------------------------
(* README "Basic Use". *)

\* the store after create({name: 'Oscar'}) on the empty store returned [i]
OscarStore(i, t) ==
    Exec(NoKeys,
         multiCreate(ModelName, Model,
                     <<seedHash(Model, Obj([name |-> Oscar]), [id |-> i, now |-> t])>>).query).db

\* C9: create({name: 'Oscar'}) on the empty store returns [id1], after which
\* search(name, 'osc') answers [id1] and search(name, 'car') answers [];
\* after remove(id1) on that store, get(id1) answers the absent marker and
\* search(name, 'osc') answers [].
C9_BasicUse ==
    \A i \in Ids :
        /\ (/\ pc = "done" /\ op = "create" /\ snap = NoKeys
            /\ input = <<Obj([name |-> Oscar])>> /\ result = Ok(<<Str(i)>>)) =>
                /\ SearchIds(db, "name", osc) = <<Str(i)>>
                /\ SearchIds(db, "name", car) = <<>>
        /\ (/\ pc = "done" /\ op = "remove" /\ input = <<Str(i)>>
            /\ \E t \in Times : snap = OscarStore(i, t)) =>
                /\ IsNull(HGetAll(db, RecordKey(i)))
                /\ SearchIds(db, "name", osc) = <<>>

\* what get(id) hands to the caller on keyspace d (146-155)
GetOne(d, id) ==
    LET h == HGetAll(d, RecordKey(id.s))
    IN  IF opts.postGet /\ ~IsNull(h) THEN deserializeHash(h) ELSE h

\* C10: after create(r) of one valid record r without id has returned
\* [id], get(id) yields a record in which every field r supplied has r's
\* value (empty string, zero and false included) and every seeded field
\* (id, created, location) is present.
C10_CreateGetRoundTrip ==
    (/\ pc = "done" /\ op = "create" /\ result.kind = "ok"
     /\ Len(input) = 1 /\ ~Has(input[1], "id")) =>
        LET got == GetOne(db, result.v[1])
        IN  /\ \A f \in Keys(input[1]) : got[f] = Stored(input[1][f])
            /\ \A f \in {"id", "created", "location"} : Has(got, f)

---------------------------------------------------------------------------
(* Update without id; search on fields that have no index. *)

\* C11: an update one of whose records has no id field ends with a
\* validation error before any store command is issued; a record that has
\* an id and nothing else passes validation: id is the only field update
\* requires.
C11_UpdateRequiresOnlyId ==
    [][(pc = "validate" /\ op = "update" /\ Len(carry.v) >= 1) =>
           /\ (\E k \in 1..Len(carry.v) : ~Has(carry.v[k], "id")) =>
                  (/\ pc' = "done" /\ result' = Err("ValidationError")
                   /\ trips' = 0 /\ db' = db)
           /\ (\A k \in 1..Len(carry.v) :
                   Keys(carry.v[k]) = {"id"} /\ IsString(carry.v[k].id)) =>
                  pc' = "hook"]_vars

\* an update of a record without id has ended, on a store that holds records
C11_Witness ==
    /\ pc = "done" /\ op = "update" /\ result = Err("ValidationError")
    /\ Len(input) = 1 /\ ~Has(input[1], "id") /\ Has(input[1], "name")
    /\ db # NoKeys

---------------------------------------------------------------------------
(* How calls end. *)

\* C13: a get some of whose ids have no stored hash succeeds, with or
\* without a postGet hook: one entry per requested id, in request order,
\* the store's absent marker at the position of every unknown id.
C13_GetPassesAbsentThrough ==
    (/\ pc = "done" /\ op = "get" /\ arrStrPasses(input)
     /\ result # Err("StoreError")) =>
        /\ result.kind = "ok"
        /\ Len(result.v) = Len(input)
        /\ \A k \in 1..Len(input) :
               IF k \in Missing(input) THEN IsNull(result.v[k])
               ELSE result.v[k].id = input[k]

\* C14: every call that ends hands its outcome, result or error, to the
\* callback: no exception leaves a public operation and no callback is
\* dropped.
C14_ErrorsGoToTheCallback ==
    pc = "done" => result.kind \in {"ok", "error"}

\* C15: a successful create of n records returns n ids, the i-th the id
\* under which the i-th input record is stored; a successful update returns
\* the ids of its input records in input order.
C15_IdsInInputOrder ==
    (pc = "done" /\ op \in {"create", "update"} /\ result.kind = "ok") =>
        /\ Len(result.v) = Len(input)
        /\ \A k \in 1..Len(input) :
               IF op = "update" THEN result.v[k] = IdOf(input[k])
               ELSE LET h == HGetAll(db, RecordKey(result.v[k].s))
                    IN  /\ ~IsNull(h)
                        /\ h.id = result.v[k]
                        /\ TruthyAt(input[k], "id") => result.v[k] = input[k].id
                        /\ TruthyAt(input[k], "name") => h.name = Stored(input[k].name)

\* a create of two records with different names has succeeded
C15_Witness ==
    /\ pc = "done" /\ op = "create" /\ result.kind = "ok"
    /\ Len(input) = 2 /\ Len(result.v) = 2
    /\ input[1].name = Oscar /\ input[2].name = Bob
    /\ result.v[1] # result.v[2]

---------------------------------------------------------------------------
(* Batches and round trips. *)

\* C16: whenever a call changes the store it does so in one step, the
\* MULTI/EXEC of the whole batch compiled for all records of the call: the
\* store was untouched by the call before and the call ends with it, so no
\* state with a hash changed and its index not is ever visible.
C16_WritesInOneBatch ==
    [][db' # db =>
           /\ pc = "exec" /\ pc' = "done" /\ db = snap
           /\ op \in {"create", "update", "remove"}
           /\ db' = Exec(db, carry.query).db
           /\ Len(carry.ids) = Len(input)
           /\ op = "create" => carry.query = multiCreate(ModelName, Model, carry.v).query
           /\ op = "update" =>
                  carry.query = multiUpdate(ModelName, Model, input, carry.v).query]_vars

\* an update of two records has written
C16_Witness ==
    /\ pc = "done" /\ op = "update" /\ result.kind = "ok"
    /\ Len(input) = 2 /\ db # snap

\* C17: no call issues more than two round trips: a create or get that
\* passes validation issues exactly one, an update or remove exactly two
\* (the read, then the write batch), a search one range query and at most
\* one read batch.
C17_RoundTrips ==
    (pc = "done" /\ result # Err("ValidationError") /\ result # Err("StoreError")) =>
        CASE op \in {"create", "get"} -> trips = 1
          [] op \in {"update", "remove"} -> trips = 2
          [] OTHER -> trips = IF Truthy(input.get) THEN 2 ELSE 1

---------------------------------------------------------------------------
(* Concurrent calls. *)

\* the token stale: in the index of name for id while the stored hash of id
\* holds another name
StaleName(d, id, name) ==
    /\ formatIndex(name, id) \in ZMembers(d, IndexKey("name"))
    /\ HGetAll(d, RecordKey(id.s)).name # name

\* a writes after b has written, both having read before either wrote: the
\* two updates are of one live record and carry the same hash read of it,
\* the three names (read, a's, b's) have three different tokens, and the
\* store holds b's name when a's batch is sent.  a read the name both
\* carry, so b's batch reached the store after a's read, and b had read
\* before that.
RacedWrite(a, aRead, b, bRead, d) ==
    /\ Len(a) = 1 /\ Len(b) = 1
    /\ Has(a[1], "name") /\ Has(b[1], "name")
    /\ IdOf(a[1]) = IdOf(b[1])
    /\ aRead = bRead
    /\ ~IsNull(aRead[1]) /\ Has(aRead[1], "name")
    /\ LET id == IdOf(a[1])
           ta == formatIndex(a[1].name, id)
           tb == formatIndex(b[1].name, id)
           th == formatIndex(aRead[1].name, id)
       IN  /\ ta # tb /\ ta # th /\ tb # th
           /\ HGetAll(d, RecordKey(id.s)).name = b[1].name

---------------------------------------------------------------------------
(* Step order and failures of the store. *)

\* C19: in create and in update the pre-hook runs only after the whole
\* input has passed validation, and before any command is compiled or
\* sent: the hook step is entered only from a successful validate step, the
\* hook is invoked with no query compiled, no round trip issued and the
\* store as the call found it, and a call that ends in a validation error
\* has not invoked the hook.
C19_HookAfterValidationBeforeWrite ==
    [][op' \in {"create", "update"} =>
          /\ (pc' = "hook" /\ pc # "hook") =>
                 (pc = "validate" /\ ValidInput(op, carry.v))
          /\ (hooked' /\ ~hooked) =>
                 (pc = "hook" /\ trips = 0 /\ carry.query = <<>> /\ db = snap)
          /\ (pc' = "done" /\ result' = Err("ValidationError")) => ~hooked']_vars
C19_Witness ==
    /\ pc = "done" /\ op = "create" /\ result.kind = "ok"
    /\ hooked /\ db # snap

\* C20: when the store reports that the write batch of a create or an
\* update failed, the caller receives that error and no id list, and the
\* batch is not sent again: a create that got as far as its batch ends
\* after one round trip, an update after two (its read and its batch),
\* whether the batch succeeded or failed.
C20_FailedBatchIsSurfacedOnce ==
    (pc = "done" /\ op \in {"create", "update"} /\ carry.query # <<>>) =>
        /\ trips = IF op = "create" THEN 1 ELSE 2
        /\ result.kind \in {"ok", "error"}
        /\ result.kind = "error" => (result.err = "StoreError" /\ result.v = <<>>)
C20_Witness ==
    /\ pc = "done" /\ op = "update" /\ carry.query # <<>>
    /\ result = Err("StoreError") /\ trips = 2

---------------------------------------------------------------------------
(* Seeding, keys and tokens. *)

\* C21: create seeds a record field by field: a value the caller's record
\* has for a model field, falsy values (0, '', false) included, is kept as
\* supplied, and the seed is used only for the fields the record lacks.
C21_SeedKeepsSuppliedValues ==
    (pc = "validate" /\ op = "create") =>
        \A k \in 1..Len(input), key \in DOMAIN Model :
            Has(input[k], key) => carry.v[k][key] = input[k][key]

C23_KeysCollisionFree ==
    [][(/\ probe.fn = "formatKey" /\ probe'.fn = "formatKey"
        /\ probe.args # probe'.args)
       => probe.out # probe'.out]_vars

\* C24: parseIndex(formatIndex(v, id)) = id: the normalized value holds no
\* separator, so the first separator of the token is the one formatIndex
\* wrote, and parseIndex returns all that follows it.
C24_TokenRoundTrip ==
    [][/\ probe'.fn = "formatIndex" =>
              LET value == probe'.args[1].s
                  id == probe'.args[2].s
              IN  /\ \A i \in 1..(Len(probe'.out) - Len(id) - 1) : probe'.out[i] # Sep
                  /\ probe'.out[Len(probe'.out) - Len(id)] = Sep
       /\ (probe.fn = "formatIndex" /\ probe'.fn = "parseIndex") =>
              probe'.out = probe.args[2].s]_vars
C24_Witness ==
    /\ probe.fn = "parseIndex"
    /\ IndexOf(probe.out, Sep) > 0
    /\ \E i \in 1..Len(probe.args[1].s) : probe.args[1].s[i] = "o"

---------------------------------------------------------------------------
(* Remove, frames and overwrites. *)

\* the tokens of the index of field f that decode to id
TokensOf(d, f, id) == {t \in ZMembers(d, IndexKey(f)) : parseIndex(t) = id}

\* C25: remove of live records compiles, from the hashes read back, the
\* delete of each record key and a retract per lexical field the stored
\* hash has, and executes them: the call succeeds, the hashes are gone and
\* no index holds a token that decodes to a removed id.
C25_RemoveDeletesAndRetracts ==
    (/\ pc = "done" /\ op = "remove"
     /\ result # Err("ValidationError") /\ result # Err("StoreError")
     /\ \A k \in 1..Len(input) : ~IsNull(HGetAll(snap, RecordKey(input[k].s)))) =>
        /\ result.kind = "ok"
        /\ \A k \in 1..Len(input) :
            /\ IsNull(HGetAll(db, RecordKey(input[k].s)))
            /\ \A f \in Lexical : TokensOf(db, f, input[k].s) = {}

\* the members of a sorted set added or removed between d and e
TokensChanged(d, e, key) ==
    (ZMembers(d, key) \ ZMembers(e, key)) \cup (ZMembers(e, key) \ ZMembers(d, key))

\* C26: whichever call writes, and whatever the other call in flight is
\* doing, the batch of a call on the ids S changes no key but the record
\* keys of S and the index keys, and in an index only tokens that decode to
\* an id of S: every other record keeps its hash and its tokens, also when
\* it has the same value in a lexical field.
C26_WritesStayWithinTheirIds ==
    [][db' # db =>
          LET S == IF other' # other
                   THEN {other.carry.ids[k].s : k \in 1..Len(other.carry.ids)}
                   ELSE {carry.ids[k].s : k \in 1..Len(carry.ids)}
          IN  \A key \in DOMAIN db \cup DOMAIN db' :
                  \/ key \in {RecordKey(i) : i \in S}
                  \/ /\ HGetAll(db', key) = HGetAll(db, key)
                     /\ \A t \in TokensChanged(db, db', key) : parseIndex(t) \in S]_vars
C26_Witness ==
    /\ pc = "done" /\ op = "update" /\ result.kind = "ok" /\ db # snap
    /\ \E i \in Ids \ {carry.ids[1].s} :
        /\ ~IsNull(HGetAll(db, RecordKey(i)))
        /\ HGetAll(db, RecordKey(i)).name = HGetAll(snap, RecordKey(carry.ids[1].s)).name
        /\ HGetAll(db, RecordKey(i)).name # HGetAll(db, RecordKey(carry.ids[1].s)).name
        /\ formatIndex(HGetAll(db, RecordKey(i)).name, Str(i)) \in ZMembers(db, IndexKey("name"))

OneTokenPerField(d, id) ==
    \A f \in Lexical :
        LET h == HGetAll(d, RecordKey(id))
        IN  TokensOf(d, f, id) = IF Has(h, f) THEN {formatIndex(h[f], Str(id))} ELSE {}

\* C29: after one update whose list names a live id more than once, every
\* lexical index holds exactly one token for that id, the token of the
\* value finally stored.  Stated for stores whose indexes were right
\* before the call and for values whose tokens differ from the stored ones.
C29_RepeatedIdLeavesOneToken ==
    (/\ pc = "done" /\ op = "update" /\ result.kind = "ok"
     /\ Len(input) = 2 /\ IdOf(input[1]) = IdOf(input[2])
     /\ IndexConsistent(snap)
     /\ LET old == HGetAll(snap, RecordKey(IdOf(input[1]).s))
        IN  \A k \in 1..2, f \in Lexical :
                (Has(input[k], f) /\ Has(old, f)) =>
                    formatIndex(input[k][f], old.id) # formatIndex(old[f], old.id)) =>
        OneTokenPerField(db, IdOf(input[1]).s)

\* C30: after a create whose record carries the id of a live record, every
\* lexical index holds for that id at most the token of the value now
\* stored: no token of the record overwritten remains.
C30_CreateOverLiveLeavesNoStaleToken ==
    (/\ pc = "done" /\ op = "create" /\ result.kind = "ok"
     /\ Len(input) = 1 /\ Has(input[1], "id")
     /\ ~IsNull(HGetAll(snap, RecordKey(IdOf(input[1]).s)))
     /\ IndexConsistent(snap)) =>
        OneTokenPerField(db, IdOf(input[1]).s)

---------------------------------------------------------------------------
(* Termination. *)

\* C31: provided the store answers every request, every call of create,
\* update, remove, get or search eventually invokes its callback, with an
\* error or with a result, also when an id it names has no stored hash.
C31_EveryCallCallsBack ==
    \A o \in {"create", "update", "remove", "get", "search"} :
        (op = o /\ pc = "validate")
            ~> (op = o /\ pc = "done" /\ result.kind \in {"ok", "error"})

=============================================================================
